---- MODULE Spec2Model ----
(***************************************************************************)
(* Model of 02_market_and_fundamental_data/fundamental_data_edgar_xbrl:    *)
(* the filing-period enumeration, fetch_filing_data (download and extract  *)
(* the SEC archives into per-quarter directories) and the two S3 upload    *)
(* drivers.                                                                *)
(***************************************************************************)
EXTENDS Integers, Sequences, FiniteSets, TLC

VARIABLES
    \* ---- period enumeration (notebook cells 7 and 9)
    start_year,       \* first argument of range(2014, this_year)
    today,            \* pd.Timestamp(date.today()): [year, month]
    filing_periods,   \* the list being built
    epc               \* position in the two cells: "start", "previous", "done"

enumVars == <<start_year, today, filing_periods, epc>>

VARIABLES
    \* ---- fetch_filing_data (notebook cell 11)
    archive,          \* the remote archive of each period: [entries, bad]
    dir,              \* local files: directory key -> name -> content
    batch,            \* the argument of the running call
    i,                \* index into batch of the period being processed
    fpc,              \* "idle", "get", "open", "extract"
    response,         \* requests.get(url).content: "none", "zip", "notzip"
    todo,             \* entries of zip_file.namelist() still to visit
    \* ---- what a run did (observation only)
    attempted,        \* periods for which requests.get was called, in order
    printed,          \* number of 'got bad zip file' lines the call has printed
    pre,              \* dir as it was when the current period's iteration began
    opened,           \* names opened for writing in the current iteration
    cur,              \* the period of the current (or last) iteration
    last,             \* how it ended: "none", "running", "ok", "badzip", "connerr"
    outcome,          \* how the call ended: "none", "running", "returned", "raised"
    complete,         \* periods some earlier iteration extracted to the end
    refetch           \* cur was in complete when its iteration began

fetchVars == <<archive, dir, batch, i, fpc, response, todo,
               attempted, printed, pre, opened, cur, last, outcome, complete,
               refetch>>

VARIABLES
    \* ---- upload_folder_to_s3 / parallel_upload_folder_to_s3 (cells 3 and 4)
    fs,               \* the regular files below the working directory
    folder,           \* the 'folder' argument of the call
    mode,             \* "seq": upload_folder_to_s3, "par": the parallel one
    upc,              \* "idle", "walk", "uploading", "exit", "done", "raised"
    pending,          \* files the walk has still to yield
    driver_file,      \* the file whose upload the driver is in, or <<>>
    queue,            \* the executor's work queue (submitted, not started)
    running,          \* tasks a pool worker is running
    \* ---- what the call did (observation only)
    attempts,         \* file -> number of s3_client.upload_file calls for it
    sent,             \* the calls: [file, file_path, key]
    failed,           \* files for which some upload_file call raised
    logged,           \* file names printed by 'Error when uploading file: '
    hung              \* the upload call that never returns: <<>> if none,
                      \* else <<"driver", file>> or <<"worker", file>>

uploadVars == <<fs, folder, mode, upc, pending, driver_file, queue, running,
                attempts, sent, failed, logged, hung>>

VARIABLES
    \* ---- create_bucket (cell 11, second)
    buckets,          \* names of the buckets that exist in the object store
    bucket_name,      \* argument of the running call
    region,           \* argument of the running call, "None" if not given
    bpc,              \* "idle", "session", "request", "done"
    created,          \* the create request of this call succeeded
    bresult           \* how the call ended: "none", "True", "False", "raised"

bucketVars == <<buckets, bucket_name, region, bpc, created, bresult>>

vars == <<enumVars, fetchVars, uploadVars, bucketVars>>

(***************************************************************************)
(* Bounds of the model                                                     *)
(***************************************************************************)
StartSpan == 1        \* start years StartYear .. StartYear + StartSpan
YearsBack == 1        \* the clock may read up to YearsBack years before StartYear
YearsAhead == 7       \* ... and up to YearsAhead years after it
MaxBatch == 2         \* longest sequence of periods handed to fetch_filing_data
MaxBad == 1           \* most entries of one archive that fail the decoder's check

(***************************************************************************)
(* Period enumeration                                                      *)
(***************************************************************************)
StartYear == 2014

StartYears == StartYear .. (StartYear + StartSpan)

TodayDates == [year : (StartYear - YearsBack) .. (StartYear + YearsAhead), month : 1 .. 12]

\* Python range(a, b) as a list
Range(a, b) == [k \in 1 .. (IF b > a THEN b - a ELSE 0) |-> a + k - 1]

\* pandas Timestamp.quarter
Quarter(month) == ((month - 1) \div 3) + 1

this_year == today.year

this_quarter == Quarter(today.month)

past_years == Range(start_year, this_year)

\* [(y, q) for y in past_years for q in range(1, 5)]
PreviousQuarters ==
    LET qs == Range(1, 5)
    IN  [k \in 1 .. (Len(past_years) * Len(qs)) |->
            <<past_years[((k - 1) \div Len(qs)) + 1], qs[((k - 1) % Len(qs)) + 1]>>]

ThisYearQuartersOffByOne ==
    LET qs == Range(1, this_quarter)
    IN  [k \in 1 .. Len(qs) |-> <<this_year, qs[k]>>]

\* [(this_year, q) for q in range(1, this_quarter + 1)]
ThisYearQuarters ==
    LET qs == Range(1, this_quarter + 1)
    IN  [k \in 1 .. Len(qs) |-> <<this_year, qs[k]>>]

EnumInit ==
    /\ start_year \in StartYears
    /\ today \in TodayDates
    /\ filing_periods = <<>>
    /\ epc = "start"

\* filing_periods = [(y, q) for y in past_years for q in range(1, 5)]
AddPreviousQuarters ==
    /\ epc = "start"
    /\ filing_periods' = PreviousQuarters
    /\ epc' = "previous"
    /\ UNCHANGED <<start_year, today, fetchVars, uploadVars, bucketVars>>

\* filing_periods.extend([(this_year, q) for q in range(1, this_quarter + 1)])
AddThisYearQuarters ==
    /\ epc = "previous"
    /\ filing_periods' = filing_periods \o ThisYearQuarters
    /\ epc' = "done"
    /\ UNCHANGED <<start_year, today, fetchVars, uploadVars, bucketVars>>

EnumNext == AddPreviousQuarters \/ AddThisYearQuarters

(***************************************************************************)
(* fetch_filing_data                                                       *)
(***************************************************************************)
Periods == {<<2020, 1>>, <<2020, 2>>}

Names == {"sub.tsv", "tag.tsv", "num.tsv"}

NameOrder == <<"sub.tsv", "tag.tsv", "num.tsv">>

Absent == <<"absent">>  \* no such file
Empty == <<"empty">>    \* a file opened for writing into which nothing was written
Old == <<"old">>        \* a file some other program left there

\* the decompressed bytes of entry n of the archive of period p
Bytes(p, n) == <<"bytes", p, n>>

\* An archive: its entry names, and those among them whose stored data fails
\* the decoder's check when it is read (zipfile raises BadZipFile).
Archives ==
    {a \in [entries : SUBSET Names, bad : SUBSET Names] :
        a.bad \subseteq a.entries /\ Cardinality(a.bad) <= MaxBad}

Batches == UNION {[1 .. n -> Periods] : n \in 1 .. MaxBatch}

RECURSIVE Filter(_, _)
Filter(s, S) ==
    IF s = <<>> THEN <<>>
    ELSE IF Head(s) \in S THEN <<Head(s)>> \o Filter(Tail(s), S)
    ELSE Filter(Tail(s), S)

\* zip_file.namelist(): the entry names in the archive's order
namelist(a) == Filter(NameOrder, a.entries)

PathDropsQuarter(p) == <<p[1], 1>>

\* path = data_path / f'{yr}_{qtr}' / 'source', as a directory key
path(p) == <<p[1], p[2]>>

DirKeys == Periods

\* filing = f'{yr}q{qtr}_notes.zip'; url = SEC_URL + FSN_PATH + filing
url(p) == <<p[1], p[2]>>

ExistsNever(d, n) == FALSE

\* local_file.exists()
exists(d, n) == dir[d][n] # Absent

FilesOf(f) == {n \in Names : f[n] # Absent}

EmptyDirs == [d \in DirKeys |-> [n \in Names |-> Absent]]

FetchIdle ==
    /\ batch = <<>>
    /\ i = 0
    /\ fpc = "idle"
    /\ response = "none"
    /\ todo = <<>>
    /\ attempted = <<>>
    /\ printed = 0
    /\ pre = dir
    /\ opened = {}
    /\ cur = <<0, 0>>
    /\ last = "none"
    /\ outcome = "none"
    /\ complete = {}
    /\ refetch = FALSE

\* Nothing was ever fetched: no local directory, no local file.
FetchInit ==
    /\ archive \in [Periods -> Archives]
    /\ dir = EmptyDirs
    /\ FetchIdle

\* Local directories as some earlier activity left them, and archives whose
\* entries all read well.
FetchInitPre ==
    /\ archive \in [Periods -> {a \in Archives : a.bad = {}}]
    /\ dir \in [DirKeys -> [Names -> {Absent, Old}]]
    /\ FetchIdle

\* fetch_filing_data(filing_periods) is called
Call(b) ==
    /\ fpc = "idle"
    /\ batch' = b
    /\ i' = 1
    /\ fpc' = "get"
    /\ attempted' = <<>>
    /\ printed' = 0
    /\ outcome' = "running"
    /\ last' = "none"
    /\ opened' = {}
    /\ pre' = dir
    /\ cur' = <<0, 0>>
    /\ refetch' = FALSE
    /\ response' = "none"
    /\ todo' = <<>>
    /\ UNCHANGED <<archive, dir, complete>>
    /\ UNCHANGED <<enumVars, uploadVars, bucketVars>>

return_value_count == <<printed>>

\* what the call gives its caller: the function has no return statement and
\* keeps no tally, so None, written as the empty tuple
return_value == <<>>

\* the for loop is exhausted: the call returns
Return ==
    /\ fpc = "get"
    /\ i > Len(batch)
    /\ fpc' = "idle"
    /\ outcome' = "returned"
    /\ UNCHANGED <<archive, dir, batch, i, response, todo, attempted, printed,
                   pre, opened, cur, last, complete, refetch>>
    /\ UNCHANGED <<enumVars, uploadVars, bucketVars>>

ContinueBreaks == Len(batch) + 1

\* 'continue' in the except clause: on to the next period
Continue == i + 1

\* lines 160-172: the archive is requested (the directory made before it, if
\* missing, holds no file and is not a separate part of the state).
\* The request ends in one of three ways: the archive is delivered; a body that
\* is no archive is delivered (an error page of a non-success status); the HTTP
\* client raises (connection error), which nothing in the function catches.
Retrieve(net) ==
    /\ fpc = "get"
    /\ i <= Len(batch)
    /\ LET p == batch[i]
       IN  /\ attempted' = Append(attempted, p)
           /\ cur' = p
           /\ pre' = dir
           /\ opened' = {}
           /\ refetch' = (p \in complete)
           /\ IF net = "connerr"
              THEN /\ fpc' = "idle"
                   /\ outcome' = "raised"
                   /\ last' = "connerr"
                   /\ response' = "none"
              ELSE /\ fpc' = "open"
                   /\ last' = "running"
                   /\ response' = (IF net = "ok" THEN "zip" ELSE "notzip")
                   /\ UNCHANGED outcome
    /\ UNCHANGED <<archive, dir, batch, i, todo, printed, complete>>
    /\ UNCHANGED <<enumVars, uploadVars, bucketVars>>

\* the except BadZipFile clause: the failure is printed (last = "badzip"),
\* then 'continue'
BadZipFileHandler ==
    /\ printed' = printed + 1
    /\ last' = "badzip"
    /\ i' = Continue
    /\ fpc' = "get"
    /\ todo' = <<>>

\* line 174: ZipFile(BytesIO(response)) raises BadZipFile on a body that is no
\* archive, and otherwise gives the entry list.
OpenZip ==
    /\ fpc = "open"
    /\ IF response = "notzip"
       THEN BadZipFileHandler
       ELSE /\ todo' = namelist(archive[url(cur)])
            /\ fpc' = "extract"
            /\ UNCHANGED <<last, i, printed>>
    /\ UNCHANGED <<archive, dir, batch, response, attempted, pre,
                   opened, cur, outcome, complete, refetch>>
    /\ UNCHANGED <<enumVars, uploadVars, bucketVars>>

\* lines 175-181, one entry: skipped if the local file exists; otherwise the
\* local file is opened for writing (created empty) and the entry is read:
\* a bad entry raises BadZipFile before anything is written.
ExtractEntry ==
    /\ fpc = "extract"
    /\ todo # <<>>
    /\ LET file == Head(todo)
           d == path(cur)
       IN  IF exists(d, file)
           THEN /\ todo' = Tail(todo)
                /\ UNCHANGED <<dir, opened, last, i, fpc, printed>>
           ELSE /\ opened' = opened \cup {file}
                /\ IF file \in archive[url(cur)].bad
                   THEN /\ dir' = [dir EXCEPT ![d][file] = Empty]
                        /\ BadZipFileHandler
                   ELSE /\ dir' = [dir EXCEPT ![d][file] = Bytes(cur, file)]
                        /\ todo' = Tail(todo)
                        /\ UNCHANGED <<last, i, fpc, printed>>
    /\ UNCHANGED <<archive, batch, response, attempted, pre, cur,
                   outcome, complete, refetch>>
    /\ UNCHANGED <<enumVars, uploadVars, bucketVars>>

\* the entry loop is exhausted: the archive is closed, the next period follows
EndExtract ==
    /\ fpc = "extract"
    /\ todo = <<>>
    /\ last' = "ok"
    /\ complete' = complete \cup {cur}
    /\ i' = i + 1
    /\ fpc' = "get"
    /\ UNCHANGED <<archive, dir, batch, response, todo, attempted, printed,
                   pre, opened, cur, outcome, refetch>>
    /\ UNCHANGED <<enumVars, uploadVars, bucketVars>>

FetchNext ==
    \/ \E b \in Batches : Call(b)
    \/ \E net \in {"ok", "notzip", "connerr"} : Retrieve(net)
    \/ OpenZip
    \/ ExtractEntry
    \/ EndExtract
    \/ Return

\* a step of a running call: every statement of the call is executed in its
\* turn, and every network call comes back (with a body or an exception)
FetchStep ==
    \/ \E net \in {"ok", "notzip", "connerr"} : Retrieve(net)
    \/ OpenZip
    \/ ExtractEntry
    \/ EndExtract
    \/ Return

\* the first call only
FetchNextOnce ==
    \/ \E b \in Batches : outcome = "none" /\ Call(b)
    \/ \E net \in {"ok", "notzip", "connerr"} : Retrieve(net)
    \/ OpenZip
    \/ ExtractEntry
    \/ EndExtract
    \/ Return

(***************************************************************************)
(* upload_folder_to_s3, upload_file_to_s3, parallel_upload_folder_to_s3    *)
(***************************************************************************)
\* Strings are sequences of characters, so that slicing is what Python does.
Chars ==
    [c \in {"data", "a", "b", "c", "s", "t", "o", "x"} |->
        CASE c = "data" -> <<"d", "a", "t", "a">>
          [] OTHER -> <<c>>]

\* The files there may be, each by its directories and name from the working
\* directory: ./data/a/b/c, ./data/a/s, ./data/t, ./o/x
FileUniverse ==
    {<<"data", "a", "b", "c">>, <<"data", "a", "s">>, <<"data", "t">>, <<"o", "x">>}

\* A directory as the caller names it: the string, and the directories it
\* stands for from the working directory.
DataDir == [str |-> <<".", "/", "d", "a", "t", "a">>, comps |-> <<"data">>]

Folders ==
    {DataDir,
     [str |-> <<".", "/", "d", "a", "t", "a", "/", "a">>, comps |-> <<"data", "a">>],
     [str |-> <<".", "/", "o">>, comps |-> <<"o">>],
     [str |-> <<".">>, comps |-> <<>>]}

IsUnder(f, top) ==
    /\ Len(f) > Len(top.comps)
    /\ SubSeq(f, 1, Len(top.comps)) = top.comps

\* the regular files of the subtree rooted at top
FilesUnder(top) == {f \in fs : IsUnder(f, top)}

RECURSIVE JoinSlash(_)
\* "/" + c1 + "/" + c2 + ...
JoinSlash(cs) ==
    IF cs = <<>> THEN <<>>
    ELSE <<"/">> \o Chars[Head(cs)] \o JoinSlash(Tail(cs))

\* file_path = root + "/" + file, root being top joined with the directories
\* os.walk descended through
FilePath(top, f) == top.str \o JoinSlash(SubSeq(f, Len(top.comps) + 1, Len(f)))

\* os.walk("./data"): the root of the walk
WalkRoot == DataDir

KeyStripsRoot(file_path) == SubSeq(file_path, Len(WalkRoot.str) + 2, Len(file_path))

\* file_path[2:]
Key(file_path) == SubSeq(file_path, 3, Len(file_path))

upload_file_to_s3_NoExcept(raises) == IF raises THEN "raised" ELSE "returned"

\* upload_file_to_s3: any exception of s3_client.upload_file is caught and the
\* file name printed; the function returns either way
upload_file_to_s3(raises) == IF raises THEN "caught" ELSE "returned"

max_workers == 10

UploadIdle ==
    /\ fs = {}
    /\ folder = DataDir
    /\ mode = "seq"
    /\ upc = "idle"
    /\ pending = {}
    /\ driver_file = <<>>
    /\ queue = <<>>
    /\ running = {}
    /\ attempts = [f \in FileUniverse |-> 0]
    /\ sent = {}
    /\ failed = {}
    /\ logged = {}
    /\ hung = <<>>

\* One of the two drivers is called on some folder, with some files on disk.
UploadInit ==
    /\ fs \in SUBSET FileUniverse
    /\ folder \in Folders
    /\ mode \in {"seq", "par"}
    /\ upc = "walk"
    /\ pending = FilesUnder(WalkRoot)
    /\ driver_file = <<>>
    /\ queue = <<>>
    /\ running = {}
    /\ attempts = [f \in FileUniverse |-> 0]
    /\ sent = {}
    /\ failed = {}
    /\ logged = {}
    /\ hung = <<>>

\* one call of upload_file_to_s3(file_path, bucket, key, s3_client) for file f
UploadCall(f, raises) ==
    LET file_path == FilePath(WalkRoot, f)
    IN  /\ attempts' = [attempts EXCEPT ![f] = @ + 1]
        /\ sent' = sent \cup {[file |-> f, file_path |-> file_path, key |-> Key(file_path)]}
        /\ failed' = IF raises THEN failed \cup {f} ELSE failed
        /\ logged' = IF upload_file_to_s3(raises) = "caught"
                     THEN logged \cup {file_path} ELSE logged

\* upload_folder_to_s3, one file of the walk: upload it, print its name
SeqUpload(f, raises) ==
    /\ mode = "seq"
    /\ upc = "walk"
    /\ f \in pending
    /\ UploadCall(f, raises)
    /\ IF upload_file_to_s3(raises) = "raised"
       THEN upc' = "raised" /\ pending' = pending
       ELSE upc' = upc /\ pending' = pending \ {f}
    /\ UNCHANGED <<fs, folder, mode, driver_file, queue, running>>
    /\ UNCHANGED <<enumVars, fetchVars, bucketVars, hung>>

\* the walk is exhausted: upload_folder_to_s3 returns
SeqReturn ==
    /\ mode = "seq"
    /\ upc = "walk"
    /\ pending = {}
    /\ upc' = "done"
    /\ UNCHANGED <<fs, folder, mode, pending, driver_file, queue, running,
                   attempts, sent, failed, logged>>
    /\ UNCHANGED <<enumVars, fetchVars, bucketVars, hung>>

\* parallel_upload_folder_to_s3, one file of the walk: its name is printed and
\* the driver itself calls upload_file_to_s3 ...
ParUploadBegin(f) ==
    /\ mode = "par"
    /\ upc = "walk"
    /\ f \in pending
    /\ pending' = pending \ {f}
    /\ driver_file' = f
    /\ upc' = "uploading"
    /\ UNCHANGED <<fs, folder, mode, queue, running, attempts, sent, failed, logged>>
    /\ UNCHANGED <<enumVars, fetchVars, bucketVars, hung>>

\* ... and when that call has returned, submits the same upload to the pool
ParUploadEndSubmit(raises) ==
    /\ mode = "par"
    /\ upc = "uploading"
    /\ hung # <<"driver", driver_file>>
    /\ UploadCall(driver_file, raises)
    /\ IF upload_file_to_s3(raises) = "raised"
       THEN upc' = "raised" /\ queue' = queue
       ELSE upc' = "walk" /\ queue' = Append(queue, driver_file)
    /\ driver_file' = <<>>
    /\ UNCHANGED <<fs, folder, mode, pending, running>>
    /\ UNCHANGED <<enumVars, fetchVars, bucketVars, hung>>

\* a pool worker takes the oldest submitted task
WorkerStart ==
    /\ mode = "par"
    /\ queue # <<>>
    /\ Cardinality(running) < max_workers
    /\ running' = running \cup {Head(queue)}
    /\ queue' = Tail(queue)
    /\ UNCHANGED <<fs, folder, mode, upc, pending, driver_file, attempts, sent,
                   failed, logged>>
    /\ UNCHANGED <<enumVars, fetchVars, bucketVars, hung>>

\* the worker's upload_file_to_s3 call runs and ends
WorkerFinish(f, raises) ==
    /\ mode = "par"
    /\ f \in running
    /\ hung # <<"worker", f>>
    /\ UploadCall(f, raises)
    /\ running' = running \ {f}
    /\ UNCHANGED <<fs, folder, mode, upc, pending, driver_file, queue>>
    /\ UNCHANGED <<enumVars, fetchVars, bucketVars, hung>>

\* the walk is exhausted: the with block is left
ParWalkEnd ==
    /\ mode = "par"
    /\ upc = "walk"
    /\ pending = {}
    /\ upc' = "exit"
    /\ UNCHANGED <<fs, folder, mode, pending, driver_file, queue, running,
                   attempts, sent, failed, logged>>
    /\ UNCHANGED <<enumVars, fetchVars, bucketVars, hung>>

shutdown_nowait == TRUE

\* ThreadPoolExecutor.__exit__ is shutdown(wait=True): it ends when every
\* submitted task has ended
shutdown_wait == queue = <<>> /\ running = {}

\* the with block is left and the call returns
ParReturn ==
    /\ mode = "par"
    /\ upc = "exit"
    /\ shutdown_wait
    /\ upc' = "done"
    /\ UNCHANGED <<fs, folder, mode, pending, driver_file, queue, running,
                   attempts, sent, failed, logged>>
    /\ UNCHANGED <<enumVars, fetchVars, bucketVars, hung>>

\* s3_client.upload_file(...) of one call in progress, the driver's own or a
\* worker's, never returns
HangCall ==
    /\ mode = "par"
    /\ hung = <<>>
    /\ \/ upc = "uploading" /\ hung' = <<"driver", driver_file>>
       \/ \E f \in running : hung' = <<"worker", f>>
    /\ UNCHANGED <<fs, folder, mode, upc, pending, driver_file, queue, running,
                   attempts, sent, failed, logged>>
    /\ UNCHANGED <<enumVars, fetchVars, bucketVars>>

UploadNext ==
    \/ \E f \in FileUniverse, raises \in BOOLEAN : SeqUpload(f, raises)
    \/ SeqReturn
    \/ \E f \in FileUniverse : ParUploadBegin(f)
    \/ \E raises \in BOOLEAN : ParUploadEndSubmit(raises)
    \/ WorkerStart
    \/ \E f \in FileUniverse, raises \in BOOLEAN : WorkerFinish(f, raises)
    \/ ParWalkEnd
    \/ ParReturn

\* A ./data tree with more files than the pool has workers: ./data/<d>/<n>
ManyFiles ==
    {<<"data", d, n>> : d \in {"a", "b", "c", "s"}, n \in {"t", "o", "x"}}

\* parallel_upload_folder_to_s3 is called on that tree
PoolInit ==
    /\ fs = ManyFiles
    /\ folder = DataDir
    /\ mode = "par"
    /\ upc = "walk"
    /\ pending = FilesUnder(WalkRoot)
    /\ driver_file = <<>>
    /\ queue = <<>>
    /\ running = {}
    /\ attempts = [f \in ManyFiles |-> 0]
    /\ sent = {}
    /\ failed = {}
    /\ logged = {}
    /\ hung = <<>>

\* os.walk lists the files of the tree in one order, whatever it is
NextWalked == IF pending = {} THEN {} ELSE {CHOOSE f \in pending : TRUE}

\* The parallel driver on the large tree, every upload succeeding.
PoolNext ==
    \/ \E f \in NextWalked : ParUploadBegin(f)
    \/ ParUploadEndSubmit(FALSE)
    \/ WorkerStart
    \/ \E f \in ManyFiles : WorkerFinish(f, FALSE)
    \/ ParWalkEnd
    \/ ParReturn

(***************************************************************************)
(* create_bucket                                                           *)
(***************************************************************************)
BucketNames == {"fundamentals-data", "market-data", "scratch"}

\* region=None, AWS_REGION, and another region
Regions == {"None", "us-west-2", "eu-west-1"}

BucketIdle ==
    /\ buckets = {}
    /\ bucket_name = "none"
    /\ region = "None"
    /\ bpc = "idle"
    /\ created = FALSE
    /\ bresult = "none"

BucketInit ==
    /\ buckets \in SUBSET BucketNames
    /\ bucket_name = "none"
    /\ region = "None"
    /\ bpc = "idle"
    /\ created = FALSE
    /\ bresult = "none"

\* create_bucket(bucket_name, region) is called
CreateBucketCall(name, reg) ==
    /\ bpc \in {"idle", "done"}
    /\ bucket_name' = name
    /\ region' = reg
    /\ bpc' = "session"
    /\ created' = FALSE
    /\ bresult' = "none"
    /\ UNCHANGED buckets
    /\ UNCHANGED <<enumVars, fetchVars, uploadVars>>

\* except ClientError: only an error response of the service is caught; any
\* other exception (no such profile, no credentials, no connection) leaves
\* the function
Except(error) == IF error = "ClientError" THEN "False" ELSE "raised"

\* boto3.Session(profile_name='gold-miner', ...) and session.client('s3'):
\* the profile is found, or the constructor raises ProfileNotFound
OpenSession(found) ==
    /\ bpc = "session"
    /\ IF found
       THEN bpc' = "request" /\ bresult' = bresult
       ELSE bpc' = "done" /\ bresult' = Except("ProfileNotFound")
    /\ UNCHANGED <<buckets, bucket_name, region, created>>
    /\ UNCHANGED <<enumVars, fetchVars, uploadVars>>

\* s3_client.create_bucket(...), with the location constraint if a region was
\* given: the bucket is created, or the service answers with an error
\* (ClientError), or the request fails before any answer (a connection error)
CreateRequest(answer) ==
    /\ bpc = "request"
    /\ bpc' = "done"
    /\ IF answer = "created"
       THEN /\ buckets' = buckets \cup {bucket_name}
            /\ created' = TRUE
            /\ bresult' = "True"
       ELSE /\ bresult' = Except(answer)
            /\ UNCHANGED <<buckets, created>>
    /\ UNCHANGED <<bucket_name, region>>
    /\ UNCHANGED <<enumVars, fetchVars, uploadVars>>

BucketNext ==
    \/ \E name \in BucketNames, reg \in Regions : CreateBucketCall(name, reg)
    \/ \E found \in BOOLEAN : OpenSession(found)
    \/ \E answer \in {"created", "ClientError", "EndpointConnectionError"} :
            CreateRequest(answer)

(***************************************************************************)
(* Specifications                                                          *)
(***************************************************************************)
EnumIdle ==
    /\ start_year = StartYear
    /\ today = [year |-> StartYear, month |-> 1]
    /\ filing_periods = <<>>
    /\ epc = "idle"

NoArchives ==
    /\ archive = [p \in Periods |-> [entries |-> {}, bad |-> {}]]
    /\ dir = EmptyDirs
    /\ FetchIdle

\* the two enumeration cells are run
InitEnum == EnumInit /\ NoArchives /\ UploadIdle /\ BucketIdle

SpecEnum == InitEnum /\ [][EnumNext]_vars

\* fetch_filing_data is called, any number of times, on empty directories
InitFetch == EnumIdle /\ FetchInit /\ UploadIdle /\ BucketIdle

SpecFetch == InitFetch /\ [][FetchNext]_vars

\* one call on empty directories, run on to its end
SpecFetchFair == InitFetch /\ [][FetchNextOnce]_vars /\ WF_vars(FetchStep)

\* fetch_filing_data is called once on directories that hold files already
InitFetchPre == EnumIdle /\ FetchInitPre /\ UploadIdle /\ BucketIdle

SpecFetchPre == InitFetchPre /\ [][FetchNextOnce]_vars

\* one of the uploaders is called
InitUpload == EnumIdle /\ NoArchives /\ UploadInit /\ BucketIdle

SpecUpload == InitUpload /\ [][UploadNext]_vars

\* either driver, where one upload call of the parallel driver may hang
HangNext == UploadNext \/ HangCall

SpecHang == InitUpload /\ [][HangNext]_vars

\* parallel_upload_folder_to_s3 on a tree larger than the pool
InitPool == EnumIdle /\ NoArchives /\ PoolInit /\ BucketIdle

SpecPool == InitPool /\ [][PoolNext]_vars

\* create_bucket is called, any number of times
InitBucket == EnumIdle /\ NoArchives /\ UploadIdle /\ BucketInit

SpecBucket == InitBucket /\ [][BucketNext]_vars

(***************************************************************************)
(* Claims about the period enumeration                                     *)
(***************************************************************************)
PeriodLess(a, b) == a[1] < b[1] \/ (a[1] = b[1] /\ a[2] < b[2])

StrictlyIncreasing(s) ==
    \A j \in 1 .. Len(s), k \in 1 .. Len(s) : j < k => PeriodLess(s[j], s[k])

PeriodsOf(s) == {s[k] : k \in 1 .. Len(s)}

EnumShape ==
    /\ StrictlyIncreasing(filing_periods)
    /\ Cardinality(PeriodsOf(filing_periods)) = Len(filing_periods)
    /\ \A y \in start_year .. (this_year - 1), q \in 1 .. 4 :
            <<y, q>> \in PeriodsOf(filing_periods)
    /\ {p \in PeriodsOf(filing_periods) : p[1] = this_year}
            = {<<this_year, q>> : q \in 1 .. this_quarter}
    /\ (start_year = 2014 /\ today.year = 2021 /\ today.month = 2) =>
            /\ Len(filing_periods) = 29
            /\ filing_periods[Len(filing_periods)] = <<2021, 1>>

C12_PeriodsInRange ==
    epc = "done" =>
        \A p \in PeriodsOf(filing_periods) :
            /\ p[1] >= start_year
            /\ p[2] \in 1 .. 4
            /\ ~PeriodLess(<<this_year, this_quarter>>, p)

(***************************************************************************)
(* Claims about fetch_filing_data                                          *)
(***************************************************************************)
\* C2: when a period is fetched again after an earlier fetch of it ran to the
\* end, the second fetch opens no local file for writing and leaves the
\* period's directory exactly as it found it.
C2_Idempotent ==
    refetch => (opened = {} /\ dir[cur] = pre[cur])

C2_Witness ==
    /\ refetch
    /\ last = "ok"
    /\ archive[cur] = [entries |-> Names, bad |-> {}]
    /\ FilesOf(dir[cur]) = Names
    /\ opened = {}

\* C3: a period whose body is not a valid archive is reported and does not end
\* the call: the periods before it were attempted in order, the call goes on to
\* the next one (a call that returns has attempted its whole batch), and the
\* failing iteration touches no other period's directory.
C3_InvalidArchiveIsolated ==
    /\ last = "badzip" =>
            /\ outcome # "raised"
            /\ \A q \in Periods \ {cur} : dir[q] = pre[q]
    /\ (fpc = "get" /\ outcome = "running") => attempted = SubSeq(batch, 1, i - 1)
    /\ outcome = "returned" => attempted = batch

C3_Witness ==
    /\ outcome = "returned"
    /\ Len(batch) = 2
    /\ batch[1] # batch[2]
    /\ archive[batch[1]].bad # {}
    /\ FilesOf(dir[batch[1]]) # {}
    /\ last = "ok"
    /\ cur = batch[2]
    /\ opened # {}
    /\ attempted = batch

\* C4: a network failure (the HTTP client raising, or a non-success status)
\* never aborts the call: no call ends by an exception, and every call that
\* has ended attempted every period of its batch.
C4_NetworkFailureHandled ==
    /\ outcome # "raised"
    /\ (fpc = "idle" /\ outcome # "none") => attempted = batch

\* C5: an iteration that extracted its archive to the end, with entry set E and
\* L the files the directory held before: the directory holds L \cup E, exactly
\* E \ L were opened for writing and hold the entries' bytes, and every file of
\* L is as it was.
C5_SuccessPostcondition ==
    last = "ok" =>
        LET L == FilesOf(pre[cur])
            E == archive[cur].entries
        IN  /\ FilesOf(dir[cur]) = L \cup E
            /\ opened = E \ L
            /\ \A n \in E \ L : dir[cur][n] = Bytes(cur, n)
            /\ \A n \in L : dir[cur][n] = pre[cur][n]

C5_Witness ==
    /\ last = "ok"
    /\ archive[cur].entries = Names
    /\ FilesOf(pre[cur]) = {"sub.tsv"}
    /\ pre[cur]["sub.tsv"] = Old
    /\ dir[cur]["sub.tsv"] = Old
    /\ opened = {"tag.tsv", "num.tsv"}

\* C6: an iteration that ended by reporting the invalid archive created or
\* modified no file of the period's directory.
C6_FailedFetchWritesNothing ==
    last = "badzip" => (opened = {} /\ dir[cur] = pre[cur])

\* C13 (as stated): a call that has returned gives its caller a summary count
\* of failures equal to the number of periods that failed.
C13_Original ==
    outcome = "returned" => return_value = <<printed>>

\* C13 (amended): failures are printed, not counted: each failing period
\* prints 'got bad zip file' once (at most one line per period of the batch),
\* and the call returns nothing to its caller.
C13_FailuresOnlyPrinted ==
    /\ printed <= Len(attempted)
    /\ last = "badzip" => printed >= 1
    /\ outcome = "returned" => return_value = <<>>

C13_Witness ==
    /\ outcome = "returned"
    /\ Len(batch) = 2
    /\ printed = 1
    /\ last = "ok"

\* C15: the periods are attempted in the order of the batch, one at a time and
\* each occurrence once (what has been attempted is always the batch up to
\* the current index, and all of it when the call returns); a retrieval
\* starts only when the iteration before it has ended; and, every network
\* call coming back, a started call ends.
C15_FetchOrder ==
    /\ [](outcome \in {"running", "returned"} =>
            attempted = SubSeq(batch, 1, IF fpc \in {"open", "extract"} THEN i ELSE i - 1))
    /\ [](outcome = "returned" => attempted = batch)
    /\ [][Len(attempted') > Len(attempted) =>
            (fpc = "get" /\ last \in {"none", "ok", "badzip"})]_vars
    /\ ((outcome = "running") ~> (outcome \in {"returned", "raised"}))

C15_Witness ==
    /\ outcome = "returned"
    /\ Len(batch) = 2
    /\ batch[1] # batch[2]
    /\ attempted = batch
    /\ printed = 0
    /\ opened # {}

\* C7: from empty directories, the files of every period's directory are named
\* after entries of that period's archive and hold nothing of another period.
C7_SubsetInvariant ==
    \A p \in Periods :
        /\ FilesOf(dir[p]) \subseteq archive[p].entries
        /\ \A n \in FilesOf(dir[p]) : dir[p][n] \in {Empty, Bytes(p, n)}

C7_Witness ==
    /\ fpc = "idle"
    /\ outcome = "returned"
    /\ \E p \in Periods, q \in Periods :
            /\ FilesOf(dir[p]) = archive[p].entries
            /\ FilesOf(dir[p]) = {"sub.tsv", "tag.tsv"}
            /\ archive[q].entries = {"num.tsv"}
            /\ FilesOf(dir[q]) = {"num.tsv"}

(***************************************************************************)
(* Claims about the uploaders                                              *)
(***************************************************************************)
\* C8: in upload_folder_to_s3 an upload error is logged by file name and does
\* not stop the walk: no file is attempted twice, a failed file is logged, and
\* when the call returns every file of the walked tree was attempted once.
C8_SequentialTolerant ==
    mode = "seq" =>
        /\ upc # "raised"
        /\ \A f \in FileUniverse : attempts[f] <= 1
        /\ \A f \in failed : FilePath(DataDir, f) \in logged
        /\ upc = "done" =>
                \A f \in FileUniverse :
                    attempts[f] = (IF f \in FilesUnder(DataDir) THEN 1 ELSE 0)

C8_Witness ==
    /\ mode = "seq"
    /\ upc = "done"
    /\ Cardinality(FilesUnder(DataDir)) = 3
    /\ Cardinality(failed) = 1
    /\ \A f \in FilesUnder(DataDir) : attempts[f] = 1

RECURSIVE PathFrom(_)
\* c1/c2/.../ck
PathFrom(cs) ==
    IF cs = <<>> THEN <<>>
    ELSE IF Len(cs) = 1 THEN Chars[Head(cs)]
    ELSE Chars[Head(cs)] \o <<"/">> \o PathFrom(Tail(cs))

\* C9 (as stated): the key of a file at <root>/a/b/c, root being the walked
\* directory, is a/b/c.
C9_Original ==
    \A r \in sent : r.key = PathFrom(SubSeq(r.file, Len(DataDir.comps) + 1, Len(r.file)))

\* C9 (amended): the key is the file's path with the leading "./" removed: the
\* path from the working directory, the walked directory's own name included
\* (data/a/b/c for ./data/a/b/c), separators unchanged, in both uploaders.
C9_KeyDerivation ==
    \A r \in sent :
        /\ r.file_path = <<".", "/">> \o PathFrom(r.file)
        /\ r.key = PathFrom(r.file)

C9_Witness ==
    /\ upc = "done"
    /\ \E r \in sent :
            /\ r.file = <<"data", "a", "b", "c">>
            /\ r.key = <<"d", "a", "t", "a", "/", "a", "/", "b", "/", "c">>
    /\ mode = "par"

\* C10: when the call has returned, the files for which an upload was attempted
\* are exactly the regular files of the subtree rooted at the folder argument.
C10_WalksGivenFolder ==
    upc = "done" => {f \in FileUniverse : attempts[f] > 0} = FilesUnder(folder)

\* C11 (as stated): the driver does not wait for the pool: once the walk has
\* ended the call can return, whatever tasks are still queued or running.
C11_Original ==
    (mode = "par" /\ upc = "exit") => ENABLED ParReturn

\* C11 (amended): the driver keeps no result of the submitted uploads, but
\* leaving the with block waits for the pool: when
\* parallel_upload_folder_to_s3 has returned, no submitted task is queued or
\* running.
C11_ReturnWaitsForPool ==
    (mode = "par" /\ upc = "done") => (queue = <<>> /\ running = {})

C11_Witness ==
    /\ mode = "par"
    /\ upc = "exit"
    /\ queue # <<>>
    /\ running # {}

(***************************************************************************)
(* Claims about create_bucket                                              *)
(***************************************************************************)
\* C14: a call that has ended returned a boolean, True exactly when the
\* create request succeeded; a failed request gives False, not an exception.
C14_ReturnsBoolean ==
    bpc = "done" =>
        /\ bresult \in {"True", "False"}
        /\ (bresult = "True") <=> created

(***************************************************************************)
(* Claims about the per-file bookkeeping of the uploaders                  *)
(***************************************************************************)
\* C18: within one call of either uploader no file is sent more than once,
\* and when the call has returned every walked file was sent exactly once.
C18_OneAttemptPerFile ==
    /\ \A f \in FileUniverse : attempts[f] <= 1
    /\ upc = "done" => \A f \in FilesUnder(WalkRoot) : attempts[f] = 1

\* upload_file_to_s3 calls in progress: the pool workers' and the driver's own
InProgress == Cardinality(running) + (IF upc = "uploading" THEN 1 ELSE 0)

\* C16: during parallel_upload_folder_to_s3 the upload calls in progress,
\* the driver's included, never number more than the pool size.
C16_BoundedConcurrency == mode = "par" => InProgress <= max_workers

\* the walk of the parallel driver goes on: the next file is reached, or the
\* driver's call for the current file returns
WalkOn ==
    \/ \E f \in FileUniverse : ParUploadBegin(f)
    \/ \E raises \in BOOLEAN : ParUploadEndSubmit(raises)

\* C17: an upload call that never returns sits in one worker-pool slot, and
\* while files remain to be walked the walk can go on.
C17_HungCallCostsOneSlot ==
    hung # <<>> =>
        /\ hung[1] = "worker" /\ hung[2] \in running
        /\ pending # {} => ENABLED WalkOn

(***************************************************************************)
(* Claims about the local files across runs                                *)
(***************************************************************************)
\* C19: after any sequence of runs, every file that fetch created under a
\* quarter directory holds the complete bytes of the archive entry of that
\* name, and a run that ended normally for a period left all of its entries
\* complete on disk.
C19_LocalFilesComplete ==
    /\ \A p \in DirKeys : \A n \in Names : dir[p][n] \in {Absent, Bytes(p, n)}
    /\ last = "ok" => \A n \in archive[cur].entries : dir[cur][n] = Bytes(cur, n)

====
